---------------------------- MODULE Spec2Model ----------------------------
(***************************************************************************)
(* Zonal raster summarization per H3 cell, as implemented by the recipes   *)
(* nasadem.py / cop-dem.py (compute_elevation_stats, summarize_elevation,  *)
(* h3_cells_to_polygon) and esa-worldcover.py (compute_class_fractions).   *)
(*                                                                         *)
(* Geometry of the model world.  The raster is one row of pixels; pixel k  *)
(* has the footprint lng in [4k-4, 4k], lat in [0, 4] and the centre       *)
(* (4k-2, 2).  The cell library delivers axis-aligned rings, for which the *)
(* bounding-box tests below are exact point-in-polygon tests.  No vertex   *)
(* coordinate coincides with a pixel-centre coordinate.                    *)
(***************************************************************************)
EXTENDS Integers, Sequences, FiniteSets, TLC

VARIABLES
    entry,                  \* which function the caller invoked
    pc,                     \* position inside the call
    h3_cells,               \* the caller's list of cell identifiers
    default_h3_resolution,  \* parameter of compute_elevation_stats
    data,                   \* the raster field (pixel index -> value)
    polygon,                \* summarize_elevation: union polygon of the cells
    bbox,                   \* summarize_elevation: polygon.bounds
    items,                  \* summarize_elevation: number of STAC items found
    resolution,             \* compute_elevation_stats: h3.get_resolution(h3_cells[0])
    all_touched,            \* compute_elevation_stats: rasterization mode
    idx,                    \* compute_elevation_stats: position of the for loop
    results,                \* compute_elevation_stats: list of row dicts
    df,                     \* the returned DataFrame
    outcome,                \* "running", "returned" or the exception that propagated
    calls,                  \* how many times the caller has made this call
    first,                  \* what the first of two identical calls produced
    classification,         \* compute_class_fractions: the array of class codes
    fractions,              \* compute_class_fractions: the returned dict
    cpc,                    \* compute_class_fractions: position
    landcover,              \* categorical summary of the array (majority, unique)
    w_cells,                \* temporal job: the cell list
    windows,                \* temporal job: number of time windows requested
    wstate,                 \* temporal job: window -> "pending", "fetching", "fetched",
                            \*               "skipped", "cancelled"
    wslices,                \* temporal job: window -> time slices of the fetched field
    wrows,                  \* temporal job: window -> cell position -> collected result
    table,                  \* temporal job: the assembled rows
    tpc                     \* temporal job: "idle", "running", "assembled", "cancelled"

vars == <<entry, pc, h3_cells, default_h3_resolution, data, polygon, bbox,
          items, resolution, all_touched, idx, results, df, outcome,
          calls, first, classification, fractions, cpc, landcover,
          w_cells, windows, wstate, wslices, wrows, table, tpc>>

elevVars == <<entry, pc, h3_cells, default_h3_resolution, data, polygon, bbox,
              items, resolution, all_touched, idx, results, df, outcome,
              calls, first>>

callVars == <<calls, first>>

classVars == <<classification, fractions, cpc, landcover>>

winVars == <<w_cells, windows, wstate, wslices, wrows, table, tpc>>

-----------------------------------------------------------------------------
(* Bounds of the model *)

MaxCells == 3

RasterWidth == 3

MaxItems == 2

MaxPixels == 3

-----------------------------------------------------------------------------
(* Configuration of the recipes *)

DEFAULT_H3_RESOLUTION == 11

NODATA_VALUE == -999

OUTPUT_COLUMNS == <<"cell", "elevation_median", "elevation_range">>

\* Python's None and a present value, for the statistics zonal_stats returns
None == <<>>

Some(v) == <<v>>

-----------------------------------------------------------------------------
(* The cell library (h3) *)

ValidCells == {"r10c", "r11a", "r11b", "r11o", "r12f", "r12c"}

InvalidCells == {"bad"}

CellIds == ValidCells \cup InvalidCells

Resolutions == {10, 11, 12}

is_valid_cell(cell) == cell \in ValidCells

get_resolution(cell) ==
    CASE cell = "r10c" -> 10
      [] cell \in {"r11a", "r11b", "r11o"} -> 11
      [] cell \in {"r12f", "r12c"} -> 12

Ring(latlo, lathi, lnglo, lnghi) ==
    << <<latlo, lnglo>>, <<latlo, lnghi>>, <<lathi, lnghi>>, <<lathi, lnglo>> >>

\* h3.cell_to_boundary: the ring of (lat, lng) vertices of a valid cell
cell_to_boundary(cell) ==
    CASE cell = "r10c" -> Ring(0, 4, 0, 8)      \* coarse: pixels 1 and 2
      [] cell = "r11a" -> Ring(0, 4, 0, 4)      \* pixel 1
      [] cell = "r11b" -> Ring(0, 4, 4, 8)      \* pixel 2
      [] cell = "r11o" -> Ring(0, 4, 20, 24)    \* outside the raster extent
      [] cell = "r12f" -> Ring(0, 1, 8, 9)      \* inside pixel 3, off its centre
      [] cell = "r12c" -> Ring(1, 3, 9, 11)     \* inside pixel 3, on its centre

-----------------------------------------------------------------------------
(* Geometry (shapely) *)

SetMin(S) == CHOOSE x \in S : \A y \in S : x <= y

SetMax(S) == CHOOSE x \in S : \A y \in S : x >= y

\* [(lng, lat) for (lat, lng) in boundary]
LonLats(boundary) ==
    [n \in 1..Len(boundary) |-> <<boundary[n][2], boundary[n][1]>>]

\* shapely Polygon(ring): the ring of (x, y) vertices
Polygon(lonlats) == lonlats

\* bounds (minx, miny, maxx, maxy) of a collection of polygons; an empty
\* collection has no bounds
BoundsOf(polys) ==
    LET xs == {polys[p][n][1] : p \in DOMAIN polys, n \in 1..4}
        ys == {polys[p][n][2] : p \in DOMAIN polys, n \in 1..4}
    IN  IF polys = <<>> THEN <<>>
        ELSE <<SetMin(xs), SetMin(ys), SetMax(xs), SetMax(ys)>>

PolyBounds(poly) == BoundsOf(<<poly>>)

\* the first polygon returned in place of the union
h3_cells_to_polygon_FirstOnly(cells) ==
    [n \in 1..(IF cells = <<>> THEN 0 ELSE 1) |->
        Polygon(LonLats(cell_to_boundary(cells[n])))]

\* h3_cells_to_polygon: unary_union of the cells' polygons, kept as the
\* collection of its member polygons
h3_cells_to_polygon(cells) ==
    [n \in 1..Len(cells) |-> Polygon(LonLats(cell_to_boundary(cells[n])))]

\* the boundary handed to Polygon as delivered, (lat, lng)
CellPoly_Unswapped(cell) == Polygon(cell_to_boundary(cell))

\* the per-cell clip polygon of compute_elevation_stats
CellPoly(cell) == Polygon(LonLats(cell_to_boundary(cell)))

-----------------------------------------------------------------------------
(* Raster access (rioxarray, rasterstats) *)

Elevations == {5, 7}

PixelValues == Elevations \cup {NODATA_VALUE}

\* the pixel of a chunk whose deferred read fails: the raster is dask-backed
\* (odc.stac.load(..., chunks=...)) and its pixels are read on first use
UNREADABLE == -1

UnreadableRaster == [k \in 1..RasterWidth |-> UNREADABLE]

Rasters == [1..RasterWidth -> PixelValues] \cup {UnreadableRaster}

NoRaster == <<>>

CentreInside(k, poly) ==
    LET b == PolyBounds(poly)
    IN  b[1] < 4*k - 2 /\ 4*k - 2 < b[3] /\ b[2] < 2 /\ 2 < b[4]

Touches(k, poly) ==
    LET b == PolyBounds(poly)
    IN  b[1] < 4*k /\ 4*k - 4 < b[3] /\ b[2] < 4 /\ 0 < b[4]

\* data.rio.clip(geometries=[poly]) rasterizes the polygon with its default
\* all_touched=False
ClipMask(raster, poly) == {k \in DOMAIN raster : CentreInside(k, poly)}

\* rio.clip raises NoDataInBounds when no pixel is selected
ClipRaises(raster, poly) == ClipMask(raster, poly) = {}

\* the clipped subset: the window of the mask, pixels outside the mask
\* filled with nodata
rio_clip(raster, poly) ==
    LET m == ClipMask(raster, poly)
    IN  [k \in SetMin(m)..SetMax(m) |->
            IF k \in m THEN raster[k] ELSE NODATA_VALUE]

\* subset.to_numpy() reads the pixels; the read of a failing chunk raises
ReadRaises(subset) == \E k \in DOMAIN subset : subset[k] = UNREADABLE

RECURSIVE SortedValues(_, _)
SortedValues(S, f) ==
    IF S = {} THEN <<>>
    ELSE LET k == CHOOSE x \in S : \A y \in S : f[x] <= f[y]
         IN  <<f[k]>> \o SortedValues(S \ {k}, f)

Median(s) ==
    IF Len(s) % 2 = 1 THEN s[(Len(s) + 1) \div 2]
    ELSE (s[Len(s) \div 2] + s[Len(s) \div 2 + 1]) \div 2

\* zonal_stats without the nodata mask
zonal_stats_CountsNodata(poly, subset, nodata, touched) ==
    LET sel == {k \in DOMAIN subset :
                   IF touched THEN Touches(k, poly) ELSE CentreInside(k, poly)}
        s   == SortedValues(sel, subset)
    IN  IF sel = {}
        THEN [median |-> None, range |-> None]
        ELSE [median |-> Some(Median(s)), range |-> Some(s[Len(s)] - s[1])]

\* zonal_stats([poly], subset, nodata=nodata, stats=["median", "range"],
\*             all_touched=all_touched)[0]
zonal_stats(poly, subset, nodata, touched) ==
    LET sel   == {k \in DOMAIN subset :
                     IF touched THEN Touches(k, poly) ELSE CentreInside(k, poly)}
        valid == {k \in sel : subset[k] # nodata}
        s     == SortedValues(valid, subset)
    IN  IF valid = {}
        THEN [median |-> None, range |-> None]
        ELSE [median |-> Some(Median(s)), range |-> Some(s[Len(s)] - s[1])]

-----------------------------------------------------------------------------
(* pandas *)

NoDataFrame == [columns |-> <<>>, rows |-> <<>>]

\* pd.DataFrame(rows, columns=columns)
DataFrame(rows, columns) ==
    [columns |-> columns,
     rows    |-> [r \in 1..Len(rows) |->
                    [c \in 1..Len(columns) |-> rows[r][columns[c]]]]]

-----------------------------------------------------------------------------
(* Inputs *)

RECURSIVE SeqsUpTo(_, _)
SeqsUpTo(S, n) ==
    IF n = 0 THEN {<<>>}
    ELSE LET shorter == SeqsUpTo(S, n - 1)
         IN  shorter \cup {Append(s, x) : s \in {t \in shorter : Len(t) = n - 1}, x \in S}

CellLists == SeqsUpTo(CellIds, MaxCells)

DefaultResolutions == {DEFAULT_H3_RESOLUTION, DEFAULT_H3_RESOLUTION + 1}

-----------------------------------------------------------------------------
(* Initial state: no call in progress *)

NoCall == [df |-> NoDataFrame, outcome |-> "none"]

ElevIdle ==
    /\ entry = "none"
    /\ pc = "idle"
    /\ h3_cells = <<>>
    /\ default_h3_resolution = DEFAULT_H3_RESOLUTION
    /\ data = NoRaster
    /\ polygon = <<>>
    /\ bbox = <<>>
    /\ items = 0
    /\ resolution = 0
    /\ all_touched = FALSE
    /\ idx = 0
    /\ results = <<>>
    /\ df = NoDataFrame
    /\ outcome = "running"
    /\ calls = 0
    /\ first = NoCall

NotSummarized == [state |-> "pending", majority |-> 0, unique |-> 0]

ClassIdle ==
    /\ classification = <<>>
    /\ fractions = <<>>
    /\ cpc = "idle"
    /\ landcover = NotSummarized

WinIdle ==
    /\ w_cells = <<>>
    /\ windows = 0
    /\ wstate = <<>>
    /\ wslices = <<>>
    /\ wrows = <<>>
    /\ table = <<>>
    /\ tpc = "idle"

Init == ElevIdle /\ ClassIdle /\ WinIdle

-----------------------------------------------------------------------------
(* compute_elevation_stats *)

\* a caller invokes compute_elevation_stats(data, h3_cells, default_h3_resolution)
CallComputeElevationStats ==
    /\ pc = "idle"
    /\ \E cells \in CellLists, raster \in Rasters, dflt \in DefaultResolutions :
          /\ h3_cells' = cells
          /\ data' = raster
          /\ default_h3_resolution' = dflt
    /\ entry' = "compute_elevation_stats"
    /\ pc' = "mode"
    /\ calls' = 1
    /\ UNCHANGED <<polygon, bbox, items, resolution, all_touched, idx, results,
                   df, outcome, classVars,
                   first, winVars>>

Raise(exc) ==
    /\ pc' = "done"
    /\ outcome' = exc

\* an empty cell list answered with the empty table
ModeIndexError_ReturnsEmpty ==
    /\ pc = "mode"
    /\ h3_cells = <<>>
    /\ df' = DataFrame(<<>>, OUTPUT_COLUMNS)
    /\ outcome' = "returned"
    /\ pc' = "done"
    /\ UNCHANGED <<entry, h3_cells, default_h3_resolution, data, polygon, bbox,
                   items, resolution, all_touched, idx, results, classVars,
                   callVars, winVars>>

\* h3_cells[0] of an empty list
ModeIndexError ==
    /\ pc = "mode"
    /\ h3_cells = <<>>
    /\ Raise("IndexError")
    /\ UNCHANGED <<entry, h3_cells, default_h3_resolution, data, polygon, bbox,
                   items, resolution, all_touched, idx, results, df, classVars,
                   callVars, winVars>>

\* h3.get_resolution of an identifier that cannot be parsed raises
ModeInvalidCell ==
    /\ pc = "mode"
    /\ h3_cells # <<>>
    /\ ~is_valid_cell(h3_cells[1])
    /\ Raise("InvalidCellError")
    /\ UNCHANGED <<entry, h3_cells, default_h3_resolution, data, polygon, bbox,
                   items, resolution, all_touched, idx, results, df, classVars,
                   callVars, winVars>>

\* the comparison written as "at least as fine"
ModeOf_AtLeast(res, dflt) == res >= dflt

ModeOf(res, dflt) == res > dflt

\* the list kept from one call to the next (a module-level accumulator)
NewResults_Accumulates(old) == old

\* results = []
NewResults(old) == <<>>

\* resolution = h3.get_resolution(h3_cells[0]); all_touched = resolution > default.
\* For an identifier that parses but names no cell, get_resolution returns
\* whatever the resolution bits hold.
ResolveMode ==
    /\ pc = "mode"
    /\ h3_cells # <<>>
    /\ \E res \in Resolutions :
          /\ is_valid_cell(h3_cells[1]) => res = get_resolution(h3_cells[1])
          /\ resolution' = res
          /\ all_touched' = ModeOf(res, default_h3_resolution)
    /\ idx' = 1
    /\ results' = NewResults(results)
    /\ pc' = "loop"
    /\ UNCHANGED <<entry, h3_cells, default_h3_resolution, data, polygon, bbox,
                   items, df, outcome, classVars,
                   callVars, winVars>>

\* the boundary lookup moved inside the try: the bad cell is skipped
LoopInvalidCell_Skips ==
    /\ pc = "loop"
    /\ idx <= Len(h3_cells)
    /\ ~is_valid_cell(h3_cells[idx])
    /\ idx' = idx + 1
    /\ UNCHANGED <<entry, pc, h3_cells, default_h3_resolution, data, polygon,
                   bbox, items, resolution, all_touched, results, df, outcome,
                   classVars, callVars, winVars>>

\* h3.cell_to_boundary(cell) raises for an invalid identifier, outside the try
LoopInvalidCell ==
    /\ pc = "loop"
    /\ idx <= Len(h3_cells)
    /\ ~is_valid_cell(h3_cells[idx])
    /\ Raise("InvalidCellError")
    /\ UNCHANGED <<entry, h3_cells, default_h3_resolution, data, polygon, bbox,
                   items, resolution, all_touched, idx, results, df, classVars,
                   callVars, winVars>>

\* the clip without its try/except: the exception reaches the caller
LoopClipFails_Propagates ==
    /\ pc = "loop"
    /\ idx <= Len(h3_cells)
    /\ is_valid_cell(h3_cells[idx])
    /\ ClipRaises(data, CellPoly(h3_cells[idx]))
    /\ Raise("NoDataInBounds")
    /\ UNCHANGED <<entry, h3_cells, default_h3_resolution, data, polygon, bbox,
                   items, resolution, all_touched, idx, results, df, classVars,
                   callVars, winVars>>

\* data.rio.clip raises: except Exception: continue
LoopClipFails ==
    /\ pc = "loop"
    /\ idx <= Len(h3_cells)
    /\ is_valid_cell(h3_cells[idx])
    /\ ClipRaises(data, CellPoly(h3_cells[idx]))
    /\ idx' = idx + 1
    /\ UNCHANGED <<entry, pc, h3_cells, default_h3_resolution, data, polygon,
                   bbox, items, resolution, all_touched, results, df, outcome,
                   classVars, callVars, winVars>>

\* a row appended without looking at the statistics
EmitsRow_Always(summary) == TRUE

\* if None not in summary.values()
EmitsRow(summary) == summary.median # None /\ summary.range # None

RowOf(cell, summary) ==
    [cell |-> cell,
     elevation_median |-> summary.median,
     elevation_range |-> summary.range]

\* the row appended twice
AppendRow_Twice(rows, row) == Append(Append(rows, row), row)

\* results.insert(0, {...})
AppendRow_Prepends(rows, row) == <<row>> \o rows

\* results.append({...})
AppendRow(rows, row) == Append(rows, row)

\* the clip succeeded lazily; subset.to_numpy() and zonal_stats run after the
\* try/except, so the failed read propagates
LoopReadFails ==
    /\ pc = "loop"
    /\ idx <= Len(h3_cells)
    /\ is_valid_cell(h3_cells[idx])
    /\ ~ClipRaises(data, CellPoly(h3_cells[idx]))
    /\ ReadRaises(rio_clip(data, CellPoly(h3_cells[idx])))
    /\ Raise("RasterioIOError")
    /\ UNCHANGED <<entry, h3_cells, default_h3_resolution, data, polygon, bbox,
                   items, resolution, all_touched, idx, results, df, classVars,
                   callVars, winVars>>

\* the clip writes its mask into the caller's raster instead of a copy
LoopSummarize_ClipsInPlace ==
    /\ pc = "loop"
    /\ idx <= Len(h3_cells)
    /\ is_valid_cell(h3_cells[idx])
    /\ ~ClipRaises(data, CellPoly(h3_cells[idx]))
    /\ ~ReadRaises(rio_clip(data, CellPoly(h3_cells[idx])))
    /\ LET cell    == h3_cells[idx]
           poly    == CellPoly(cell)
           subset  == rio_clip(data, poly)
           summary == zonal_stats(poly, subset, NODATA_VALUE, all_touched)
       IN  /\ results' = IF EmitsRow(summary)
                         THEN AppendRow(results, RowOf(cell, summary))
                         ELSE results
           /\ data' = [k \in DOMAIN data |->
                          IF k \in DOMAIN subset THEN subset[k] ELSE NODATA_VALUE]
    /\ idx' = idx + 1
    /\ UNCHANGED <<entry, pc, h3_cells, default_h3_resolution, polygon,
                   bbox, items, resolution, all_touched, df, outcome, classVars,
                   callVars, winVars>>

\* the mode decided again for every cell, from that cell's own resolution
LoopSummarize_ModePerCell ==
    /\ pc = "loop"
    /\ idx <= Len(h3_cells)
    /\ is_valid_cell(h3_cells[idx])
    /\ ~ClipRaises(data, CellPoly(h3_cells[idx]))
    /\ ~ReadRaises(rio_clip(data, CellPoly(h3_cells[idx])))
    /\ LET cell    == h3_cells[idx]
           poly    == CellPoly(cell)
           subset  == rio_clip(data, poly)
           touched == ModeOf(get_resolution(cell), default_h3_resolution)
           summary == zonal_stats(poly, subset, NODATA_VALUE, touched)
       IN  /\ results' = IF EmitsRow(summary)
                         THEN AppendRow(results, RowOf(cell, summary))
                         ELSE results
           /\ all_touched' = touched
    /\ idx' = idx + 1
    /\ UNCHANGED <<entry, pc, h3_cells, default_h3_resolution, data, polygon,
                   bbox, items, resolution, df, outcome, classVars,
                   callVars, winVars>>

\* clip succeeded: zonal_stats, then append a row unless a statistic is None
LoopSummarize ==
    /\ pc = "loop"
    /\ idx <= Len(h3_cells)
    /\ is_valid_cell(h3_cells[idx])
    /\ ~ClipRaises(data, CellPoly(h3_cells[idx]))
    /\ ~ReadRaises(rio_clip(data, CellPoly(h3_cells[idx])))
    /\ LET cell    == h3_cells[idx]
           poly    == CellPoly(cell)
           subset  == rio_clip(data, poly)
           summary == zonal_stats(poly, subset, NODATA_VALUE, all_touched)
       IN  results' = IF EmitsRow(summary)
                      THEN AppendRow(results, RowOf(cell, summary))
                      ELSE results
    /\ idx' = idx + 1
    /\ UNCHANGED <<entry, pc, h3_cells, default_h3_resolution, data, polygon,
                   bbox, items, resolution, all_touched, df, outcome, classVars,
                   callVars, winVars>>

\* pd.DataFrame(results) without columns=: the columns come from the rows
ResultFrame_NoColumns(rows) ==
    IF rows = <<>> THEN NoDataFrame ELSE DataFrame(rows, OUTPUT_COLUMNS)

\* df = pd.DataFrame(results, columns=OUTPUT_COLUMNS); return df
ResultFrame(rows) == DataFrame(rows, OUTPUT_COLUMNS)

ReturnStats ==
    /\ pc = "loop"
    /\ idx > Len(h3_cells)
    /\ df' = ResultFrame(results)
    /\ outcome' = "returned"
    /\ pc' = "done"
    /\ UNCHANGED <<entry, h3_cells, default_h3_resolution, data, polygon, bbox,
                   items, resolution, all_touched, idx, results, classVars,
                   callVars, winVars>>

\* the caller repeats compute_elevation_stats with the identical raster,
\* cells and default resolution; the locals of the finished call hold
\* whatever it left until the code assigns them again
CallAgain ==
    /\ pc = "done"
    /\ entry = "compute_elevation_stats"
    /\ calls = 1
    /\ first' = [df |-> df, outcome |-> outcome]
    /\ calls' = 2
    /\ df' = NoDataFrame
    /\ outcome' = "running"
    /\ pc' = "mode"
    /\ UNCHANGED <<entry, h3_cells, default_h3_resolution, data, polygon, bbox,
                   items, resolution, all_touched, idx, results, classVars,
                   winVars>>

-----------------------------------------------------------------------------
(* summarize_elevation *)

\* a caller invokes summarize_elevation(h3_cells)
CallSummarizeElevation ==
    /\ pc = "idle"
    /\ \E cells \in CellLists : h3_cells' = cells
    /\ entry' = "summarize_elevation"
    /\ pc' = "polygon"
    /\ calls' = 1
    /\ UNCHANGED <<default_h3_resolution, data, polygon, bbox, items,
                   resolution, all_touched, idx, results, df, outcome,
                   classVars, first, winVars>>

\* h3_cells_to_polygon: h3.cell_to_boundary raises for an invalid identifier
PolygonInvalidCell ==
    /\ pc = "polygon"
    /\ \E n \in 1..Len(h3_cells) : ~is_valid_cell(h3_cells[n])
    /\ Raise("InvalidCellError")
    /\ UNCHANGED <<entry, h3_cells, default_h3_resolution, data, polygon, bbox,
                   items, resolution, all_touched, idx, results, df, classVars,
                   callVars, winVars>>

\* polygon = h3_cells_to_polygon(h3_cells); bbox = polygon.bounds
BuildPolygon ==
    /\ pc = "polygon"
    /\ \A n \in 1..Len(h3_cells) : is_valid_cell(h3_cells[n])
    /\ polygon' = h3_cells_to_polygon(h3_cells)
    /\ bbox' = BoundsOf(h3_cells_to_polygon(h3_cells))
    /\ pc' = "search"
    /\ UNCHANGED <<entry, h3_cells, default_h3_resolution, data, items,
                   resolution, all_touched, idx, results, df, outcome,
                   classVars, callVars, winVars>>

\* search_nasadem_tiles: the catalog request fails; nothing catches it
SearchFails ==
    /\ pc = "search"
    /\ Raise("SourceFetchError")
    /\ UNCHANGED <<entry, h3_cells, default_h3_resolution, data, polygon, bbox,
                   items, resolution, all_touched, idx, results, df, classVars,
                   callVars, winVars>>

\* pd.DataFrame(columns=OUTPUT_COLUMNS)
EmptyFrame == DataFrame(<<>>, OUTPUT_COLUMNS)

\* the empty search result handed on to the load
SearchNoItems_LoadsAnyway ==
    /\ pc = "search"
    /\ items' = 0
    /\ pc' = "load"
    /\ UNCHANGED <<entry, h3_cells, default_h3_resolution, data, polygon, bbox,
                   resolution, all_touched, idx, results, df, outcome,
                   classVars, callVars, winVars>>

\* len(items) == 0: return the empty frame
SearchNoItems ==
    /\ pc = "search"
    /\ items' = 0
    /\ df' = EmptyFrame
    /\ outcome' = "returned"
    /\ pc' = "done"
    /\ UNCHANGED <<entry, h3_cells, default_h3_resolution, data, polygon, bbox,
                   resolution, all_touched, idx, results, classVars,
                   callVars, winVars>>

SearchFindsItems ==
    /\ pc = "search"
    /\ \E n \in 1..MaxItems : items' = n
    /\ pc' = "load"
    /\ UNCHANGED <<entry, h3_cells, default_h3_resolution, data, polygon, bbox,
                   resolution, all_touched, idx, results, df, outcome,
                   classVars, callVars, winVars>>

\* data = load_nasadem_raster(items, bbox);
\* compute_elevation_stats(data, h3_cells) with the default resolution
LoadRaster ==
    /\ pc = "load"
    /\ \E raster \in Rasters : data' = raster
    /\ default_h3_resolution' = DEFAULT_H3_RESOLUTION
    /\ pc' = "mode"
    /\ UNCHANGED <<entry, h3_cells, polygon, bbox, items, resolution,
                   all_touched, idx, results, df, outcome, classVars,
                   callVars, winVars>>

-----------------------------------------------------------------------------
(* compute_class_fractions (esa-worldcover.py) *)

ClassCodes == {0, 10, 20, 30, 40, 50, 60, 70, 80, 90, 95, 100}

WORLDCOVER_CLASSES ==
    [value \in ClassCodes |->
        CASE value = 0   -> "No Data"
          [] value = 10  -> "Tree cover"
          [] value = 20  -> "Shrubland"
          [] value = 30  -> "Grassland"
          [] value = 40  -> "Cropland"
          [] value = 50  -> "Built-up"
          [] value = 60  -> "Bare / sparse vegetation"
          [] value = 70  -> "Snow and ice"
          [] value = 80  -> "Permanent water bodies"
          [] value = 90  -> "Herbaceous wetland"
          [] value = 95  -> "Mangroves"
          [] value = 100 -> "Moss and lichen"]

ClassNames == {WORLDCOVER_CLASSES[value] : value \in ClassCodes}

\* the class codes the model's arrays are drawn from: nodata, two named
\* classes and one code outside the class table
SampleCodes == {0, 10, 20, 15}

Classifications == SeqsUpTo(SampleCodes, MaxPixels)

\* (classification == value).sum()
CountEqual(arr, value) == Cardinality({n \in 1..Len(arr) : arr[n] = value})

\* valid_mask = classification != 0; total_valid = valid_mask.sum()
TotalValid(arr) == Cardinality({n \in 1..Len(arr) : arr[n] # 0})

\* a float held exactly, as numerator over denominator
Frac(num, den) == [num |-> num, den |-> den]

\* the literal 0.0
Zero == Frac(0, 1)

\* the keys of the dict built by the loop: every class but value 0
FractionKeys == {WORLDCOVER_CLASSES[value] : value \in ClassCodes \ {0}}

ValueOfName(name) == CHOOSE value \in ClassCodes : WORLDCOVER_CLASSES[value] = name

\* the early return for total_valid == 0 left out
compute_class_fractions_NoGuard(arr) ==
    [name \in FractionKeys |->
        Frac(CountEqual(arr, ValueOfName(name)), TotalValid(arr))]

\* classes with a zero count left out of the dict
compute_class_fractions_Sparse(arr) ==
    IF TotalValid(arr) = 0
    THEN [name \in ClassNames |-> Zero]
    ELSE [name \in {x \in FractionKeys : CountEqual(arr, ValueOfName(x)) > 0} |->
            Frac(CountEqual(arr, ValueOfName(name)), TotalValid(arr))]

compute_class_fractions(arr) ==
    IF TotalValid(arr) = 0
    THEN [name \in ClassNames |-> Zero]
    ELSE [name \in FractionKeys |->
            Frac(CountEqual(arr, ValueOfName(name)), TotalValid(arr))]

ClassInit ==
    /\ ElevIdle
    /\ WinIdle
    /\ classification \in Classifications
    /\ fractions = <<>>
    /\ cpc = "call"
    /\ landcover = NotSummarized

\* total_valid == 0: the early return
ClassFractionsNoValid ==
    /\ cpc = "call"
    /\ TotalValid(classification) = 0
    /\ fractions' = compute_class_fractions(classification)
    /\ cpc' = "done"
    /\ UNCHANGED <<classification, landcover, elevVars, winVars>>

ClassFractionsValid ==
    /\ cpc = "call"
    /\ TotalValid(classification) # 0
    /\ fractions' = compute_class_fractions(classification)
    /\ cpc' = "done"
    /\ UNCHANGED <<classification, landcover, elevVars, winVars>>

(* Categorical summary of one cell: majority class and number of classes *)

\* the class codes among the unmasked (non-zero) pixels
UnmaskedCodes(arr) == {arr[n] : n \in 1..Len(arr)} \ {0}

CountOfBest(arr, best) == IF best = 0 THEN 0 ELSE CountEqual(arr, best)

\* ties resolved towards the highest class code
RECURSIVE MajorityOver_TieHighest(_, _, _)
MajorityOver_TieHighest(arr, codes, best) ==
    IF codes = {} THEN best
    ELSE LET c == SetMin(codes)
         IN  MajorityOver_TieHighest(arr, codes \ {c},
                 IF CountEqual(arr, c) >= CountOfBest(arr, best) THEN c ELSE best)

\* scan of the codes in ascending order, a later code replacing the best
\* one only with a strictly higher count
RECURSIVE MajorityOver(_, _, _)
MajorityOver(arr, codes, best) ==
    IF codes = {} THEN best
    ELSE LET c == SetMin(codes)
         IN  MajorityOver(arr, codes \ {c},
                 IF CountEqual(arr, c) > CountOfBest(arr, best) THEN c ELSE best)

MajorityClass(arr) == MajorityOver(arr, UnmaskedCodes(arr), 0)

UniqueClasses(arr) == Cardinality(UnmaskedCodes(arr))

\* no unmasked pixel: the cell is skipped, no row
SummarizeLandcoverSkips ==
    /\ landcover = NotSummarized
    /\ cpc # "idle"
    /\ UnmaskedCodes(classification) = {}
    /\ landcover' = [state |-> "skipped", majority |-> 0, unique |-> 0]
    /\ UNCHANGED <<classification, fractions, cpc, elevVars, winVars>>

SummarizeLandcover ==
    /\ landcover = NotSummarized
    /\ cpc # "idle"
    /\ UnmaskedCodes(classification) # {}
    /\ landcover' = [state |-> "row",
                     majority |-> MajorityClass(classification),
                     unique |-> UniqueClasses(classification)]
    /\ UNCHANGED <<classification, fractions, cpc, elevVars, winVars>>

ClassNext ==
    \/ ClassFractionsNoValid
    \/ ClassFractionsValid
    \/ SummarizeLandcoverSkips
    \/ SummarizeLandcover

ClassSpec == ClassInit /\ [][ClassNext]_vars

-----------------------------------------------------------------------------
(* Temporal Window Aggregator: summarize_over_windows (spec.md 4.4, 5).     *)
(* The engine behind the temporal recipes, hum_ai.data_engine, is imported  *)
(* by the recipes and is not part of the source tree; this section follows  *)
(* the specification's text. The per-slice statistics reuse the operators   *)
(* translated from nasadem.py above.                                        *)

MaxWindows == 3

MaxSlices == 2

\* windows are labelled 1..windows; window w is the half-open interval [w, w+1)
WindowStart(w) == w

WindowEnd(w) == w + 1

\* two field slices: one fully valid, one valid only on its first pixel
RampRaster == [k \in 1..RasterWidth |-> IF k = 2 THEN 7 ELSE 5]

PatchyRaster == [k \in 1..RasterWidth |-> IF k = 1 THEN 7 ELSE NODATA_VALUE]

WindowRasters == {RampRaster, PatchyRaster}

\* a fetched field holds one or more time slices
SliceLists == {s \in SeqsUpTo(WindowRasters, MaxSlices) : s # <<>>}

WindowCellLists == {<<"r11a", "r11o">>, <<"r10c", "r12c">>}

\* 4.3 for one cell on one slice: clip, statistics; no coverage gives no statistics
SummarizeSlice(cell, slice, touched) ==
    IF ClipRaises(slice, CellPoly(cell))
    THEN [median |-> None, range |-> None]
    ELSE zonal_stats(CellPoly(cell), rio_clip(slice, CellPoly(cell)),
                     NODATA_VALUE, touched)

RECURSIVE SumSeq(_)
SumSeq(s) == IF s = <<>> THEN 0 ELSE s[1] + SumSeq(Tail(s))

\* the reduction keeps the first slice only
MeanOf_FirstSlice(values) == Frac(values[1], 1)

\* reduce across slices by arithmetic mean
MeanOf(values) == Frac(SumSeq(values), Len(values))

\* the per-slice statistics of the slices that have them, in slice order
RECURSIVE SliceStats(_, _, _)
SliceStats(cell, slices, touched) ==
    IF slices = <<>> THEN <<>>
    ELSE LET summary == SummarizeSlice(cell, slices[1], touched)
         IN  (IF EmitsRow(summary) THEN <<summary>> ELSE <<>>)
                 \o SliceStats(cell, Tail(slices), touched)

\* one (cell, window) task: at most one row, the mean of the per-slice statistics
WindowRow(cell, w, slices, touched) ==
    LET stats == SliceStats(cell, slices, touched)
    IN  IF stats = <<>> THEN None
        ELSE Some([cell |-> cell,
                   start_time |-> WindowStart(w),
                   end_time |-> WindowEnd(w),
                   median |-> MeanOf([s \in 1..Len(stats) |-> stats[s].median[1]]),
                   range |-> MeanOf([s \in 1..Len(stats) |-> stats[s].range[1]])])

TodoSlot == [done |-> FALSE, row |-> None]

\* the job's rasterization mode, resolved once from the first cell
WindowMode(cells) == ModeOf(get_resolution(cells[1]), DEFAULT_H3_RESOLUTION)

WindowInit ==
    /\ ElevIdle
    /\ ClassIdle
    /\ w_cells \in WindowCellLists
    /\ windows \in 1..MaxWindows
    /\ wstate = [w \in 1..windows |-> "pending"]
    /\ wslices = [w \in 1..windows |-> <<>>]
    /\ wrows = [w \in 1..windows |-> [c \in 1..Len(w_cells) |-> TodoSlot]]
    /\ table = <<>>
    /\ tpc = "running"

\* the remote fetch of window w is issued
StartFetch(w) ==
    /\ tpc = "running"
    /\ wstate[w] = "pending"
    /\ wstate' = [wstate EXCEPT ![w] = "fetching"]
    /\ UNCHANGED <<w_cells, windows, wslices, wrows, table, tpc, elevVars, classVars>>

\* the fetch of window w yields zero usable items: the window is skipped
FetchEmpty(w) ==
    /\ tpc = "running"
    /\ wstate[w] = "fetching"
    /\ wstate' = [wstate EXCEPT ![w] = "skipped"]
    /\ UNCHANGED <<w_cells, windows, wslices, wrows, table, tpc, elevVars, classVars>>

\* the fetch of window w yields a field of one or more slices
FetchSlices(w) ==
    /\ tpc = "running"
    /\ wstate[w] = "fetching"
    /\ \E s \in SliceLists : wslices' = [wslices EXCEPT ![w] = s]
    /\ wstate' = [wstate EXCEPT ![w] = "fetched"]
    /\ UNCHANGED <<w_cells, windows, wrows, table, tpc, elevVars, classVars>>

\* a worker summarizes cell position c of window w and collects its result
SummarizeTask(w, c) ==
    /\ tpc = "running"
    /\ wstate[w] = "fetched"
    /\ ~wrows[w][c].done
    /\ wrows' = [wrows EXCEPT ![w][c] =
                    [done |-> TRUE,
                     row |-> WindowRow(w_cells[c], w, wslices[w],
                                       WindowMode(w_cells))]]
    /\ UNCHANGED <<w_cells, windows, wstate, wslices, table, tpc, elevVars, classVars>>

\* the rows held by the slots from position c on, in cell order
RECURSIVE RowsOfSlots(_, _)
RowsOfSlots(slots, c) ==
    IF c > Len(slots) THEN <<>>
    ELSE (IF slots[c].row = None THEN <<>> ELSE <<slots[c].row[1]>>)
             \o RowsOfSlots(slots, c + 1)

\* a skipped window is given one zero-valued row per cell
CollectedRows_Placeholder(state, slots, cells, w) ==
    IF state = "skipped"
    THEN [c \in 1..Len(cells) |->
             [cell |-> cells[c], start_time |-> WindowStart(w),
              end_time |-> WindowEnd(w), median |-> Zero, range |-> Zero]]
    ELSE RowsOfSlots(slots, 1)

\* what one window hands to the assembler: nothing when it was skipped
CollectedRows(state, slots, cells, w) ==
    IF state = "skipped" THEN <<>> ELSE RowsOfSlots(slots, 1)

\* the collected rows of windows w..n, in window order
RECURSIVE MergeRows(_, _, _, _, _)
MergeRows(states, rows, cells, w, n) ==
    IF w > n THEN <<>>
    ELSE CollectedRows(states[w], rows[w], cells, w)
             \o MergeRows(states, rows, cells, w + 1, n)

\* the assembler starts as soon as one window has been fetched
AssemblerMayRun_Early(states, rows) ==
    \E w \in DOMAIN states : states[w] # "pending"

\* the assembler runs after all producers complete
AssemblerMayRun(states, rows) ==
    \A w \in DOMAIN states :
        \/ states[w] = "skipped"
        \/ /\ states[w] = "fetched"
           /\ \A c \in DOMAIN rows[w] : rows[w][c].done

\* 4.5 on the collected rows, single-threaded
Assemble ==
    /\ tpc = "running"
    /\ AssemblerMayRun(wstate, wrows)
    /\ table' = MergeRows(wstate, wrows, w_cells, 1, windows)
    /\ tpc' = "assembled"
    /\ UNCHANGED <<w_cells, windows, wstate, wslices, wrows, elevVars, classVars>>

WindowNext ==
    \/ \E w \in 1..windows : StartFetch(w)
    \/ \E w \in 1..windows : FetchEmpty(w)
    \/ \E w \in 1..windows : FetchSlices(w)
    \/ \E w \in 1..windows : \E c \in 1..Len(w_cells) : SummarizeTask(w, c)
    \/ Assemble

WindowSpec == WindowInit /\ [][WindowNext]_vars

-----------------------------------------------------------------------------
(* Job-level cancellation (spec.md 5): the same job, whose caller may       *)
(* abandon it while window fetches are in flight.                           *)

MaxCancelWindows == 2

CancelInit ==
    /\ ElevIdle
    /\ ClassIdle
    /\ w_cells \in WindowCellLists
    /\ windows \in 1..MaxCancelWindows
    /\ wstate = [w \in 1..windows |-> "pending"]
    /\ wslices = [w \in 1..windows |-> <<>>]
    /\ wrows = [w \in 1..windows |-> [c \in 1..Len(w_cells) |-> TodoSlot]]
    /\ table = <<>>
    /\ tpc = "running"

\* the caller abandons the request before the table is assembled
Cancel ==
    /\ tpc = "running"
    /\ tpc' = "cancelled"
    /\ UNCHANGED <<w_cells, windows, wstate, wslices, wrows, table, elevVars, classVars>>

\* the in-flight fetch of window w runs to completion after the cancellation
CancelFetch_Completes(w) ==
    /\ tpc = "cancelled"
    /\ w \in 1..windows
    /\ wstate[w] = "fetching"
    /\ \E s \in SliceLists : wslices' = [wslices EXCEPT ![w] = s]
    /\ wstate' = [wstate EXCEPT ![w] = "fetched"]
    /\ UNCHANGED <<w_cells, windows, wrows, table, tpc, elevVars, classVars>>

\* the cancellation propagates to the in-flight fetch of window w
CancelFetch(w) ==
    /\ tpc = "cancelled"
    /\ w \in 1..windows
    /\ wstate[w] = "fetching"
    /\ wstate' = [wstate EXCEPT ![w] = "cancelled"]
    /\ UNCHANGED <<w_cells, windows, wslices, wrows, table, tpc, elevVars, classVars>>

CancelNext ==
    \/ WindowNext
    \/ Cancel
    \/ \E w \in 1..windows : CancelFetch(w)

\* the cancellation of every in-flight fetch is eventually delivered
CancelSpec ==
    /\ CancelInit
    /\ [][CancelNext]_vars
    /\ \A w \in 1..MaxCancelWindows : WF_vars(CancelFetch(w))

-----------------------------------------------------------------------------
(* Vocabulary of the properties, stated on the cell boundaries directly *)

CellLngs(cell) == {cell_to_boundary(cell)[n][2] : n \in 1..4}

CellLats(cell) == {cell_to_boundary(cell)[n][1] : n \in 1..4}

PixelCentreInCell(k, cell) ==
    /\ SetMin(CellLngs(cell)) < 4*k - 2 /\ 4*k - 2 < SetMax(CellLngs(cell))
    /\ SetMin(CellLats(cell)) < 2 /\ 2 < SetMax(CellLats(cell))

\* the cell's clipped pixels contain at least one non-nodata pixel
HasValidPixel(cell, raster) ==
    \E k \in DOMAIN raster : PixelCentreInCell(k, cell) /\ raster[k] # NODATA_VALUE

\* the cell's clip selects pixels, all of them nodata
AllNodataClip(cell, raster) ==
    /\ \E k \in DOMAIN raster : PixelCentreInCell(k, cell)
    /\ ~HasValidPixel(cell, raster)

\* the cell's polygon lies entirely outside the raster extent
OutsideExtent(cell, raster) ==
    \/ SetMax(CellLngs(cell)) <= 0
    \/ SetMin(CellLngs(cell)) >= 4 * Len(raster)
    \/ SetMax(CellLats(cell)) <= 0
    \/ SetMin(CellLats(cell)) >= 4

AllCellsValid == \A n \in 1..Len(h3_cells) : is_valid_cell(h3_cells[n])

RowCells(frame) == [r \in 1..Len(frame.rows) |-> frame.rows[r][1]]

RECURSIVE IsSubsequence(_, _)
IsSubsequence(s, t) ==
    IF s = <<>> THEN TRUE
    ELSE IF t = <<>> THEN FALSE
    ELSE IF Head(s) = Head(t) THEN IsSubsequence(Tail(s), Tail(t))
    ELSE IsSubsequence(s, Tail(t))

ModeResolved == idx >= 1

Returned == pc = "done" /\ outcome = "returned"

-----------------------------------------------------------------------------
(* Properties *)

\* C1: once compute_elevation_stats has decided the rasterization mode,
\* all_touched is TRUE exactly when the resolution of the batch (its first
\* cell) is strictly greater than default_h3_resolution, and FALSE otherwise,
\* also when the two are equal.
C1_ModeIffFiner ==
    (ModeResolved /\ is_valid_cell(h3_cells[1]))
        => /\ resolution = get_resolution(h3_cells[1])
           /\ all_touched = TRUE <=> get_resolution(h3_cells[1]) > default_h3_resolution
           /\ all_touched = FALSE <=> get_resolution(h3_cells[1]) <= default_h3_resolution

C1_Witness ==
    /\ ModeResolved
    /\ is_valid_cell(h3_cells[1])
    /\ get_resolution(h3_cells[1]) = default_h3_resolution
    /\ all_touched = FALSE
    /\ pc = "done"

\* C2: every row of the collected results and of the returned table belongs
\* to a cell whose clipped pixels contain a non-nodata pixel and carries no
\* None statistic; a cell whose clipped pixels are all nodata has no row.
C2_RowsHaveValidPixels ==
    /\ \A r \in 1..Len(results) :
          /\ HasValidPixel(results[r].cell, data)
          /\ results[r].elevation_median # None
          /\ results[r].elevation_range # None
    /\ \A r \in 1..Len(df.rows) :
          /\ HasValidPixel(df.rows[r][1], data)
          /\ df.rows[r][2] # None
          /\ df.rows[r][3] # None
    /\ Returned =>
          \A n \in 1..Len(h3_cells) :
              AllNodataClip(h3_cells[n], data) =>
                  \A r \in 1..Len(df.rows) : df.rows[r][1] # h3_cells[n]

C2_Witness ==
    /\ Returned
    /\ Len(df.rows) >= 1
    /\ \E n \in 1..Len(h3_cells) : AllNodataClip(h3_cells[n], data)

\* C3: a cell whose polygon lies entirely outside the raster extent
\* contributes no row and no exception: over a raster whose pixels can be
\* read the call still returns, and every later cell of the batch that has a
\* valid pixel has its row.
C3_OutsideCellIsSkipped ==
    \A n \in 1..Len(h3_cells) :
        (AllCellsValid /\ data # NoRaster /\ data # UnreadableRaster
                       /\ OutsideExtent(h3_cells[n], data))
            => /\ \A r \in 1..Len(results) : results[r].cell # h3_cells[n]
               /\ pc = "done" =>
                     /\ outcome = "returned"
                     /\ idx = Len(h3_cells) + 1
                     /\ \A m \in (n + 1)..Len(h3_cells) :
                           HasValidPixel(h3_cells[m], data) =>
                               \E r \in 1..Len(df.rows) : df.rows[r][1] = h3_cells[m]

C3_Witness ==
    /\ Returned
    /\ \E n \in 1..Len(h3_cells) :
          /\ OutsideExtent(h3_cells[n], data)
          /\ \E m \in (n + 1)..Len(h3_cells) : HasValidPixel(h3_cells[m], data)
    /\ Len(df.rows) >= 1

\* C4: a call that ends with zero rows (no cell of a non-empty batch of valid
\* cells has valid coverage, or the search found zero items) returns a table
\* with no rows and the full declared column list; it does not end without a
\* table.
C4_EmptyTableKeepsSchema ==
    /\ (Returned /\ results = <<>>)
          => df = [columns |-> <<"cell", "elevation_median", "elevation_range">>,
                   rows |-> <<>>]
    /\ (pc = "done" /\ entry = "summarize_elevation" /\ polygon # <<>>
          /\ data = NoRaster /\ outcome # "SourceFetchError")
          => Returned /\ items = 0
    /\ (pc = "done" /\ data # NoRaster /\ h3_cells # <<>> /\ AllCellsValid
          /\ \A n \in 1..Len(h3_cells) : ~HasValidPixel(h3_cells[n], data))
          => Returned /\ results = <<>>

C4_Witness ==
    /\ Returned
    /\ entry = "compute_elevation_stats"
    /\ h3_cells # <<>>
    /\ df.rows = <<>>
    /\ df.columns = OUTPUT_COLUMNS

\* Output columns of the temporal MODIS source (module docstring)
MODIS_OUTPUT_COLUMNS ==
    <<"cell", "start_time", "end_time", "ndvi_min", "ndvi_p10", "ndvi_p50",
      "ndvi_p90", "ndvi_max">>

\* C5: the returned table has exactly the declared columns in the declared
\* order, the cell identifier first (then start_time, end_time for the
\* temporal source); it has one row per collected result, in the order the
\* cells were processed, so its cell keys are an order-preserving subsequence
\* of the input cell list.
C5_TableMatchesResultsInOrder ==
    /\ MODIS_OUTPUT_COLUMNS[1] = "cell"
    /\ MODIS_OUTPUT_COLUMNS[2] = "start_time"
    /\ MODIS_OUTPUT_COLUMNS[3] = "end_time"
    /\ IsSubsequence([r \in 1..Len(results) |-> results[r].cell], h3_cells)
    /\ Returned =>
          /\ df.columns = <<"cell", "elevation_median", "elevation_range">>
          /\ Len(df.rows) = Len(results)
          /\ \A r \in 1..Len(df.rows) :
                df.rows[r] = <<results[r].cell, results[r].elevation_median,
                               results[r].elevation_range>>
          /\ IsSubsequence(RowCells(df), h3_cells)

C5_Witness ==
    /\ Returned
    /\ Len(h3_cells) = 3
    /\ Len(df.rows) = 2
    /\ df.rows[1][1] # df.rows[2][1]
    /\ df.rows[1][1] = h3_cells[1]
    /\ df.rows[2][1] = h3_cells[3]

MixedResolution ==
    \E n, m \in 1..Len(h3_cells) :
        get_resolution(h3_cells[n]) # get_resolution(h3_cells[m])

\* C6: a batch whose cells do not all share one resolution is rejected with
\* MixedResolutionError: the call does not return a table and no cell is
\* summarized under a mode derived from another cell's resolution.
C6_MixedBatchRejected ==
    (AllCellsValid /\ MixedResolution /\ data # NoRaster)
        => /\ outcome # "returned"
           /\ pc = "done" => outcome = "MixedResolutionError"
           /\ results = <<>>

\* C7: when some identifier of the input cannot be decoded, the call ends
\* with InvalidCellError and without a table; the loop never moves past the
\* first such identifier, so the cell is not skipped and no partial table
\* is returned (no other failure, such as a failed pixel read of an earlier
\* cell, ending the call first).
C7_InvalidCellSurfaces ==
    \A n \in 1..Len(h3_cells) :
        (~is_valid_cell(h3_cells[n]) /\ data # UnreadableRaster)
            => /\ idx <= n
               /\ df = NoDataFrame
               /\ outcome \in {"running", "InvalidCellError"}
               /\ pc = "done" => outcome = "InvalidCellError"

C7_Witness ==
    /\ pc = "done"
    /\ outcome = "InvalidCellError"
    /\ entry = "compute_elevation_stats"
    /\ Len(results) >= 1
    /\ is_valid_cell(h3_cells[1])

\* C8: for a non-empty list of valid cells, the box (west, south, east,
\* north) taken from h3_cells_to_polygon contains the bounding box (in
\* lng, lat) of every cell of the list.
C8_UnionBoundsContainEveryCell ==
    (entry = "summarize_elevation" /\ pc \notin {"idle", "polygon"}
        /\ h3_cells # <<>> /\ AllCellsValid)
        => \A n \in 1..Len(h3_cells) :
              /\ bbox[1] <= SetMin(CellLngs(h3_cells[n]))
              /\ bbox[2] <= SetMin(CellLats(h3_cells[n]))
              /\ bbox[3] >= SetMax(CellLngs(h3_cells[n]))
              /\ bbox[4] >= SetMax(CellLats(h3_cells[n]))

C8_Witness ==
    /\ entry = "summarize_elevation"
    /\ pc = "search"
    /\ Len(h3_cells) = 3
    /\ bbox = <<0, 0, 24, 4>>
    /\ h3_cells[1] = "r12c"

RECURSIVE SumNums(_, _)
SumNums(dict, names) ==
    IF names = {} THEN 0
    ELSE LET name == CHOOSE x \in names : TRUE
         IN  dict[name].num + SumNums(dict, names \ {name})

\* C9: for any array with at least one valid (non-zero) pixel, the emitted
\* per-class fractions sum to 1.0: they share the denominator total_valid and
\* their pixel counts sum to the number of valid pixels.
C9_FractionsSumToOne ==
    (cpc = "done" /\ TotalValid(classification) >= 1)
        => /\ \A name \in DOMAIN fractions :
                 fractions[name].den = TotalValid(classification)
           /\ SumNums(fractions, DOMAIN fractions) = TotalValid(classification)

CodeOccurs(arr, value) == \E n \in 1..Len(arr) : arr[n] = value

C12_CodesPassThrough ==
    (cpc = "done" /\ TotalValid(classification) >= 1)
        => /\ \A name \in DOMAIN fractions :
                 fractions[name].num > 0
                     => CodeOccurs(classification, ValueOfName(name))
           /\ \A n \in 1..Len(classification) :
                 classification[n] # 0
                     => \E name \in DOMAIN fractions :
                           /\ name \in ClassNames
                           /\ ValueOfName(name) = classification[n]
                           /\ fractions[name].num > 0

\* C13: a second call of compute_elevation_stats with the identical raster,
\* cells and default resolution ends exactly as the first did: the same
\* table row for row (or the same exception); nothing left by the first call
\* influences the second.
C13_SecondCallRepeatsFirst ==
    (calls = 2 /\ pc = "done")
        => /\ outcome = first.outcome
           /\ df = first.df

C13_Witness ==
    /\ calls = 2
    /\ pc = "done"
    /\ outcome = "returned"
    /\ Len(df.rows) = 2
    /\ first.df = df

\* the non-nodata pixels of the raster that the clip and the rasterization
\* leave for a cell
ValidPixelsOf(cell, raster) ==
    {k \in DOMAIN raster : PixelCentreInCell(k, cell) /\ raster[k] # NODATA_VALUE}

ValidValuesOf(cell, raster) == {raster[k] : k \in ValidPixelsOf(cell, raster)}

C17_FetchFailureDoesNotReachCaller ==
    outcome # "SourceFetchError"

\* C18: a failing fetch is retried a bounded number of times and the
\* affected window is then skipped with a warning, so the job over a
\* non-empty batch of valid cells always ends in a final state with a table
\* (its window summarized or skipped).
C18_FailedFetchEndsSkipped ==
    (pc = "done" /\ entry = "summarize_elevation" /\ h3_cells # <<>>
        /\ AllCellsValid)
        => /\ outcome = "returned"
           /\ df.columns = OUTPUT_COLUMNS

\* C15: the majority class of a cell is the code with the highest count
\* among the unmasked pixels, the lowest code winning a tie, and the
\* unique-class count is the number of distinct codes among them.
C15_MajorityLowestOnTie ==
    landcover.state = "row"
        => /\ CodeOccurs(classification, landcover.majority)
           /\ landcover.majority # 0
           /\ \A n \in 1..Len(classification) :
                 classification[n] # 0
                     => \/ CountEqual(classification, classification[n])
                              < CountEqual(classification, landcover.majority)
                        \/ /\ CountEqual(classification, classification[n])
                                = CountEqual(classification, landcover.majority)
                           /\ landcover.majority <= classification[n]
           /\ landcover.unique
                 = Cardinality({classification[n] : n \in 1..Len(classification)} \ {0})

C15_Witness ==
    /\ classification = <<20, 0, 10>>
    /\ landcover = [state |-> "row", majority |-> 10, unique |-> 2]

-----------------------------------------------------------------------------
(* Temporal windows: C16, C19, C20 *)

\* the rows of the table that carry window label w, in table order
RowsOfWindow(w) == SelectSeq(table, LAMBDA r : r.start_time = w)

RowsOfCell(cell) == SelectSeq(table, LAMBDA r : r.cell = cell)

SkippedWindows == {w \in 1..windows : wstate[w] = "skipped"}

\* the slices of window w in which the cell has a valid pixel
SlicesCovering(cell, w) ==
    {s \in 1..Len(wslices[w]) : HasValidPixel(cell, wslices[w][s])}

\* positions of the cells window w has a row for, judged from its own slices only
CoveredPositions(w) ==
    {c \in 1..Len(w_cells) : SlicesCovering(w_cells[c], w) # {}}

\* C16: a window whose fetch yields zero usable items contributes no rows and
\* raises no error, and every other window's rows are exactly those its own
\* slices give, one per covered cell, as if the empty window had not been requested;
\* with three windows of which one is empty, a cell covered in the other two
\* has exactly two rows.
C16_EmptyWindowContributesNothing ==
    tpc = "assembled" =>
        /\ \A w \in SkippedWindows : RowsOfWindow(w) = <<>>
        /\ \A w \in (1..windows) \ SkippedWindows :
               LET got == RowsOfWindow(w)
               IN  /\ Len(got) = Cardinality(CoveredPositions(w))
                   /\ \A c \in CoveredPositions(w) :
                          \E r \in 1..Len(got) :
                              /\ got[r] = WindowRow(w_cells[c], w, wslices[w],
                                                    WindowMode(w_cells))[1]
                              /\ \A q \in 1..Len(got) :
                                     got[q].cell = got[r].cell => q = r
        /\ (windows = 3 /\ Cardinality(SkippedWindows) = 1) =>
               \A c \in 1..Len(w_cells) :
                   (\A w \in (1..3) \ SkippedWindows : c \in CoveredPositions(w))
                       => Len(RowsOfCell(w_cells[c])) = 2

C16_Witness ==
    /\ tpc = "assembled"
    /\ windows = 3
    /\ wstate = <<"fetched", "skipped", "fetched">>
    /\ Len(RowsOfCell("r11a")) = 2
    /\ Len(table) = 2

RECURSIVE SumOver(_, _)
SumOver(S, f) ==
    IF S = {} THEN 0
    ELSE LET s == CHOOSE x \in S : TRUE
         IN  f[s] + SumOver(S \ {s}, f)

SliceMedian(cell, raster) ==
    Median(SortedValues(ValidPixelsOf(cell, raster), raster))

SliceRange(cell, raster) ==
    SetMax(ValidValuesOf(cell, raster)) - SetMin(ValidValuesOf(cell, raster))

\* C19: when a window's field holds several time slices, the statistics are
\* computed per slice and reduced by arithmetic mean: a row's median (range)
\* is the sum of the per-slice medians (ranges) over the number of slices
\* that have them, and the table holds exactly one row per (cell, window)
\* the cell is covered in.
C19_SlicesReducedByMean ==
    /\ \A r \in 1..Len(table) :
           LET row == table[r]
               w   == row.start_time
               cov == SlicesCovering(row.cell, w)
           IN  /\ cov # {}
               /\ row.end_time = WindowEnd(w)
               /\ row.median = Frac(SumOver(cov,
                      [s \in cov |-> SliceMedian(row.cell, wslices[w][s])]),
                      Cardinality(cov))
               /\ row.range = Frac(SumOver(cov,
                      [s \in cov |-> SliceRange(row.cell, wslices[w][s])]),
                      Cardinality(cov))
               /\ \A q \in 1..Len(table) :
                      (table[q].cell = row.cell /\ table[q].start_time = w)
                          => q = r
    /\ tpc = "assembled" =>
           \A w \in (1..windows) \ SkippedWindows : \A c \in CoveredPositions(w) :
               \E r \in 1..Len(table) :
                   table[r].cell = w_cells[c] /\ table[r].start_time = w

C19_Witness ==
    /\ tpc = "assembled"
    /\ wslices[1] = <<RampRaster, PatchyRaster>>
    /\ \E r \in 1..Len(table) :
           /\ table[r].cell = "r10c"
           /\ table[r].start_time = 1
           /\ table[r].median = Frac(13, 2)
           /\ table[r].range = Frac(2, 2)

\* no fetch and no (cell, window) task is outstanding
NoPendingWork ==
    \A w \in 1..windows :
        /\ wstate[w] \notin {"pending", "fetching"}
        /\ wstate[w] = "fetched" => \A c \in 1..Len(w_cells) : wrows[w][c].done

\* the rows of a sequential run: windows in order, cells in order
SequentialRowSet ==
    {WindowRow(w_cells[c], w, wslices[w], WindowMode(w_cells))[1] :
        <<w, c>> \in {p \in (1..windows) \X (1..Len(w_cells)) :
                         /\ wstate[p[1]] = "fetched"
                         /\ SlicesCovering(w_cells[p[2]], p[1]) # {}}}

TableRowSet == {table[r] : r \in 1..Len(table)}

C20_AssembledTable ==
    tpc = "assembled" =>
        /\ NoPendingWork
        /\ TableRowSet = SequentialRowSet
        /\ Len(table) = Cardinality(SequentialRowSet)

\* a step writes at most one result slot, one not written before, and leaves
\* every other window's and cell's slot as it was
C20_WorkerStep ==
    \A w \in 1..windows : \A c \in 1..Len(w_cells) :
        wrows'[w][c] # wrows[w][c] =>
            /\ ~wrows[w][c].done
            /\ wrows'[w][c].done
            /\ \A v \in 1..windows : \A d \in 1..Len(w_cells) :
                   <<v, d>> # <<w, c>> => wrows'[v][d] = wrows[v][d]
            /\ UNCHANGED <<wstate, wslices, table, tpc>>

\* C20: per-cell and per-window workers share no mutable state: each writes
\* only its own result slot, once; the assembler runs only after every fetch
\* and every task has completed, and the assembled row set equals that of a
\* sequential run over the windows and cells in order.
C20_WorkersIndependentAssemblerLast ==
    [](C20_AssembledTable) /\ [][C20_WorkerStep]_vars

C20_Witness ==
    /\ tpc = "assembled"
    /\ windows = 2
    /\ w_cells = <<"r10c", "r12c">>
    /\ wslices = <<<<RampRaster>>, <<PatchyRaster, RampRaster>>>>
    /\ Len(table) = 4

-----------------------------------------------------------------------------
(* Rasterization mode, frame, error handling, ordering: C21..C30 *)

\* the pixels the loop body assigns to a cell: none when the clip raises,
\* otherwise the pixels of the clipped subset that zonal_stats rasterizes
PixelsAssigned(cell, raster, touched) ==
    LET poly == CellPoly(cell)
    IN  IF ClipRaises(raster, poly) THEN {}
        ELSE {k \in DOMAIN rio_clip(raster, poly) :
                 IF touched THEN Touches(k, poly) ELSE CentreInside(k, poly)}

\* positions of the cell list the loop has finished with
ProcessedPositions ==
    IF pc \in {"loop", "done"} /\ idx >= 1
    THEN {n \in 1..Len(h3_cells) : n < idx}
    ELSE {}

\* C22: under ALL_TOUCHED every processed cell whose polygon intersects the
\* raster extent is assigned at least one pixel, and the pixels assigned
\* under ALL_TOUCHED contain those assigned under EXACT.
C22_AllTouchedAssignsAPixel ==
    \A n \in ProcessedPositions :
        (all_touched /\ is_valid_cell(h3_cells[n])
                     /\ ~OutsideExtent(h3_cells[n], data)) =>
            /\ PixelsAssigned(h3_cells[n], data, TRUE) # {}
            /\ PixelsAssigned(h3_cells[n], data, FALSE)
                   \subseteq PixelsAssigned(h3_cells[n], data, TRUE)

\* a step taken inside compute_elevation_stats, its repetition included
InsideComputeElevationStats ==
    \/ pc \in {"mode", "loop"}
    \/ pc = "done" /\ pc' = "mode"

\* C23: a summarization call leaves its inputs unchanged: no step of
\* compute_elevation_stats, whether it appends a row, skips a cell, returns or
\* raises, changes the raster field, the caller's cell list or the default
\* resolution, so they are after the call what they were before it.
C23_InputsUnchanged ==
    [][InsideComputeElevationStats =>
          UNCHANGED <<data, h3_cells, default_h3_resolution>>]_vars

C23_Witness ==
    /\ Returned
    /\ entry = "compute_elevation_stats"
    /\ h3_cells = <<"r11o", "r10c", "r11b">>
    /\ data[1] = 5
    /\ data[2] = NODATA_VALUE
    /\ Len(results) = 1

\* C24: the only failures that propagate out of compute_elevation_stats are
\* caller-misuse conditions: a call on a non-empty cell list ends by
\* returning its table or with InvalidCellError or MixedResolutionError; a
\* failure raised for one cell during clipping or statistics computation is
\* recovered by skipping that cell.
C24_OnlyMisusePropagates ==
    (pc = "done" /\ entry = "compute_elevation_stats" /\ h3_cells # <<>>)
        => outcome \in {"returned", "InvalidCellError", "MixedResolutionError"}

\* C25: the (lat, lng) vertices the cell library delivers become polygon
\* vertices (lng, lat) in the same vertex order, in the member polygons of
\* h3_cells_to_polygon and in the per-cell clip polygon alike, so the two
\* polygons of one cell are identical.
C25_VerticesSwappedInOrder ==
    polygon # <<>> =>
        /\ Len(polygon) = Len(h3_cells)
        /\ \A n \in 1..Len(h3_cells) :
               LET boundary == cell_to_boundary(h3_cells[n])
               IN  /\ Len(polygon[n]) = Len(boundary)
                   /\ \A v \in 1..Len(boundary) :
                          /\ polygon[n][v][1] = boundary[v][2]
                          /\ polygon[n][v][2] = boundary[v][1]
                   /\ CellPoly(h3_cells[n]) = polygon[n]

C25_Witness ==
    /\ Returned
    /\ entry = "summarize_elevation"
    /\ h3_cells = <<"r11a", "r10c">>
    /\ polygon = << <<<<0, 0>>, <<4, 0>>, <<4, 4>>, <<0, 4>>>>,
                    <<<<0, 0>>, <<8, 0>>, <<8, 4>>, <<0, 4>>>> >>
    /\ Len(results) = 2

\* once resolved, the mode is the one the first cell's resolution gives
C26_ModeFromFirstCell ==
    (pc \in {"loop", "done"} /\ idx >= 1 /\ is_valid_cell(h3_cells[1])) =>
        /\ resolution = get_resolution(h3_cells[1])
        /\ all_touched = (get_resolution(h3_cells[1]) > default_h3_resolution)

\* the loop never changes the mode; each call, a repeated one included,
\* assigns the mode from the resolution it has just read and starts with an
\* empty result list, whatever the earlier call left behind
C26_ModeStep ==
    /\ pc = "loop" => UNCHANGED <<resolution, all_touched>>
    /\ (pc = "mode" /\ pc' = "loop") =>
           /\ all_touched' = (resolution' > default_h3_resolution)
           /\ results' = <<>>
           /\ idx' = 1

PairwiseDistinct(s) == \A m, n \in 1..Len(s) : s[m] = s[n] => m = n

\* C27: compute_elevation_stats emits at most one row per position of the
\* input cell list: the result list never holds more rows than positions the
\* loop has finished with, the returned table never has more rows than the
\* input has cells, and when the input cells are pairwise distinct so are
\* the cell keys of the rows.
C27_AtMostOneRowPerPosition ==
    (pc \in {"loop", "done"} /\ idx >= 1) =>
        /\ Len(results) <= idx - 1
        /\ Len(results) <= Len(h3_cells)
        /\ Returned => Len(df.rows) <= Len(h3_cells)
        /\ PairwiseDistinct(h3_cells) =>
               /\ PairwiseDistinct([r \in 1..Len(results) |-> results[r].cell])
               /\ PairwiseDistinct(RowCells(df))

C27_Witness ==
    /\ Returned
    /\ h3_cells = <<"r11a", "r11b", "r12c">>
    /\ Len(df.rows) = 3
    /\ PairwiseDistinct(RowCells(df))

\* C28: in summarize_elevation every cell identifier is decoded before the
\* catalog search is issued, and the raster is loaded only after a search
\* that returned at least one item: with a malformed identifier the call ends
\* with InvalidCellError before any search or load, and with zero items it
\* returns the empty table without loading a raster or computing statistics.
C28_DecodeSearchLoadInOrder ==
    entry = "summarize_elevation" =>
        /\ (pc \in {"search", "load", "mode", "loop"} \/ items >= 1) =>
               /\ AllCellsValid
               /\ polygon = [n \in 1..Len(h3_cells) |-> CellPoly(h3_cells[n])]
        /\ pc = "load" => items >= 1
        /\ data # NoRaster => items >= 1
        /\ pc \in {"mode", "loop"} => data # NoRaster
        /\ ~AllCellsValid =>
               /\ pc \in {"polygon", "done"}
               /\ items = 0 /\ data = NoRaster /\ idx = 0
               /\ pc = "done" => outcome = "InvalidCellError"
        /\ (pc = "done" /\ items = 0 /\ outcome = "returned") =>
               /\ data = NoRaster /\ idx = 0 /\ results = <<>>
               /\ df = EmptyFrame

C28_Witness ==
    /\ entry = "summarize_elevation"
    /\ pc = "done"
    /\ h3_cells = <<"r11a", "r12c">>
    /\ outcome = "returned"
    /\ items = 0
    /\ bbox = <<0, 0, 11, 4>>
    /\ data = NoRaster

\* C29: compute_class_fractions returns a dictionary with the same key set
\* for every input array, the named classes other than No Data, and every
\* value lies between 0.0 and 1.0 inclusive.
C29_SameKeysUnitValues ==
    cpc = "done" =>
        /\ DOMAIN fractions = ClassNames \ {"No Data"}
        /\ \A name \in DOMAIN fractions :
               /\ fractions[name].den > 0
               /\ 0 <= fractions[name].num
               /\ fractions[name].num <= fractions[name].den

\* C30: compute_elevation_stats called with an empty cell list fails with
\* IndexError when it reads the first cell's resolution: no mode is resolved,
\* the loop is never entered, the raster is not clipped and no table, not
\* even an empty one with the declared schema, is returned.
C30_EmptyListRaisesIndexError ==
    (h3_cells = <<>> /\ entry # "none") =>
        /\ idx = 0
        /\ results = <<>>
        /\ pc # "loop"
        /\ (pc = "done" /\ entry = "compute_elevation_stats") =>
               /\ outcome = "IndexError"
               /\ df = NoDataFrame

C30_Witness ==
    /\ entry = "compute_elevation_stats"
    /\ pc = "done"
    /\ h3_cells = <<>>
    /\ data # NoRaster
    /\ outcome = "IndexError"

\* no fetch of the job is in flight
NoFetchInFlight == \A w \in 1..windows : wstate[w] # "fetching"

\* once the job is cancelled no fetch is issued or completed, no cell is
\* summarized and no table is assembled: the only change left is an
\* in-flight fetch becoming cancelled
C21_NoNewWorkStep ==
    tpc = "cancelled" =>
        /\ UNCHANGED <<tpc, wslices, wrows, table>>
        /\ \A w \in 1..windows :
               wstate'[w] # wstate[w] =>
                   wstate[w] = "fetching" /\ wstate'[w] = "cancelled"

\* C21: after a job-level cancellation no new fetch or summarization work
\* is started and every in-flight window fetch is cancelled: eventually no
\* fetch of the abandoned request is running, and it stays so.
C21_CancellationStopsAllWork ==
    /\ [][C21_NoNewWorkStep]_vars
    /\ (tpc = "cancelled") ~> [](tpc = "cancelled" /\ NoFetchInFlight)

C21_Witness ==
    /\ tpc = "cancelled"
    /\ windows = 2
    /\ wstate = <<"cancelled", "fetched">>
    /\ wrows[2][1].done
    /\ ~wrows[2][2].done

-----------------------------------------------------------------------------

Next ==
    \/ CallComputeElevationStats
    \/ CallSummarizeElevation
    \/ PolygonInvalidCell
    \/ BuildPolygon
    \/ SearchFails
    \/ SearchNoItems
    \/ SearchFindsItems
    \/ LoadRaster
    \/ ModeIndexError
    \/ ModeInvalidCell
    \/ ResolveMode
    \/ LoopInvalidCell
    \/ LoopClipFails
    \/ LoopReadFails
    \/ LoopSummarize
    \/ ReturnStats
    \/ CallAgain

Spec == Init /\ [][Next]_vars

=============================================================================
